---- MODULE Spec2Model ----
(***************************************************************************)
(* Model of tutorial/e3d.ipynb: process_point_cloud (voxelisation, label   *)
(* filtering, sparse quantisation), generate_random_batch / the collation  *)
(* of feed_dicts, and the inference cell that scatters per-voxel           *)
(* predictions back to the points through the inverse map.                 *)
(*                                                                         *)
(* Numbers.  A spatial coordinate is an integer multiple of a grid unit g  *)
(* and voxel_size is d * g with d a positive integer, so coordinate /      *)
(* voxel_size is the rational n / d and np.round is computed on it         *)
(* exactly (round half to even).  A point is the row <<x, y, z, w>> of     *)
(* the (n, 4) array, w being the intensity.  Python indices are 0-based    *)
(* and are kept 0-based as VALUES (inds, inverse_map); TLA+ sequences are  *)
(* 1-based, so an index value k addresses element k + 1.                   *)
(***************************************************************************)
EXTENDS Integers, Sequences, FiniteSets

\* ---------------------------------------------------------------- bounds
MaxPoints == 2

\* ------------------------------------------------------ program constants
IgnoreLabel == 19
BatchSize == 2

\* ------------------------------------------------------------ input sets
XRange == {-2, 0, 1, 3}
YZRange == {<<0, 0>>, <<1, -1>>}
Intensity == {0}
VoxelSizes == {1, 2, 3}
Classes == {0, 1}
RealPoints == {<<x, yz[1], yz[2], w>> : x \in XRange, yz \in YZRange, w \in Intensity}
RealLabels == Classes \cup {IgnoreLabel}
DummyPoints == {<<0, 0, 0, 0>>, <<1, 1, -1, 0>>}
Axes == 1..3

VARIABLES cell, point_cloud, label, voxel_size, lis, feed_dict, outputs, predictions

vars == <<cell, point_cloud, label, voxel_size, lis, feed_dict, outputs, predictions>>

\* ------------------------------------------------------- numpy primitives
\* np.round on the rational n / d, d > 0: nearest integer, ties to even.
RoundHalfEven(n, d) ==
    LET q == n \div d
        r == n % d
    IN  IF 2 * r < d THEN q
        ELSE IF 2 * r > d THEN q + 1
        ELSE IF q % 2 = 0 THEN q ELSE q + 1

\* a[:, :3]
Xyz(p) == <<p[1], p[2], p[3]>>

\* a.min(0, keepdims=1) of an (n, 3) array with n >= 1: the per-axis minimum.
ColMin(a) ==
    [k \in Axes |-> CHOOSE m \in {a[i][k] : i \in 1..Len(a)} :
                        \A i \in 1..Len(a) : m <= a[i][k]]

RECURSIVE BoolIndex(_, _)
\* a[mask] with a boolean mask of the same length: the rows where the mask
\* is true, in order, as a new array.
BoolIndex(a, mask) ==
    IF Len(a) = 0 THEN <<>>
    ELSE IF Head(mask) THEN <<Head(a)>> \o BoolIndex(Tail(a), Tail(mask))
    ELSE BoolIndex(Tail(a), Tail(mask))

\* a[idx] with an integer index array (0-based values).
TakeIndex(a, idx) == [j \in 1..Len(idx) |-> a[idx[j] + 1]]

\* ------------------------------------------------- torchsparse (external)
SparseTensor(F, C) == [F |-> F, C |-> C]

\* The orders in which np.unique may list the distinct keys: the keys are
\* hashes of the coordinate rows, so the sorted order is any order of rows.
UniqueOrders(coords) ==
    LET U == {coords[i] : i \in 1..Len(coords)}
        n == Cardinality(U)
    IN  {s \in [1..n -> U] : \A i, j \in 1..n : i # j => s[i] # s[j]}

\* sparse_quantize(coords, feats, labels, return_index=True, return_invs=True)
\* with the unique keys listed in the order srt: inds[k] is the first row
\* holding srt[k], invs[i] the position of row i's key.  The second value
\* returned (the filtered labels) is overwritten by the caller and left out.
sparse_quantize(coords, srt) ==
    [inds |-> [k \in 1..Len(srt) |->
                 (CHOOSE i \in 1..Len(coords) :
                     /\ coords[i] = srt[k]
                     /\ \A j \in 1..Len(coords) : coords[j] = srt[k] => i <= j) - 1],
     invs |-> [i \in 1..Len(coords) |->
                 (CHOOSE k \in 1..Len(srt) : srt[k] = coords[i]) - 1]]

RECURSIVE CollateTensors(_, _)
\* sparse_collate_tensors: the features concatenated, the coordinates
\* concatenated with the 0-based position of the sample appended to each row.
CollateTensors(ts, first) ==
    IF Len(ts) = 0 THEN SparseTensor(<<>>, <<>>)
    ELSE LET t == Head(ts)
             rest == CollateTensors(Tail(ts), first + 1)
         IN  SparseTensor(t.F \o rest.F,
                          [j \in 1..Len(t.C) |-> Append(t.C[j], first)] \o rest.C)

Fields == {"pc", "lidar", "targets", "targets_mapped", "inverse_map"}

sparse_collate_fn(batch) ==
    [key \in Fields |-> CollateTensors([s \in 1..Len(batch) |-> batch[s][key]], 0)]

\* ------------------------------------------------------ process_point_cloud
\* Mutant: the intensity column overwritten with the x column.
AssignIntensityFromX(ipc) == [i \in 1..Len(ipc) |-> [ipc[i] EXCEPT ![4] = ipc[i][1]]]

\* input_point_cloud[:, 3] = input_point_cloud[:, 3]: the argument array
\* after the in-place column assignment.
AssignIntensity(ipc) == [i \in 1..Len(ipc) |-> [ipc[i] EXCEPT ![4] = ipc[i][4]]]

\* Mutant: the division by voxel_size forgotten.
RoundedCoordsNoDivide(ipc, vs) ==
    [i \in 1..Len(ipc) |-> [k \in Axes |-> RoundHalfEven(ipc[i][k], 1)]]

\* pc_ = np.round(input_point_cloud[:, :3] / voxel_size): a new array.
RoundedCoords(ipc, vs) ==
    [i \in 1..Len(ipc) |-> [k \in Axes |-> RoundHalfEven(ipc[i][k], vs)]]

\* Mutant: the origin shift left out.
NoShift(pc_) == pc_

\* pc_ -= pc_.min(0, keepdims=1)
ShiftToOrigin(pc_) ==
    [i \in 1..Len(pc_) |-> [k \in Axes |-> pc_[i][k] - ColMin(pc_)[k]]]

\* Mutant: a mask that keeps every point.
LabelMaskNone(labels_, ignore) == [i \in 1..Len(labels_) |-> TRUE]

\* labels_ != ignore_label
LabelMask(labels_, ignore) == [i \in 1..Len(labels_) |-> labels_[i] # ignore]

\* out_pc = input_point_cloud[labels_ != ignore_label, :3]
OutPc(ipc, labels_, ignore) ==
    BoolIndex([i \in 1..Len(ipc) |-> Xyz(ipc[i])], LabelMask(labels_, ignore))

\* Mutant: the filter applied before the shift, the minimum taken over the
\* retained points only.
VoxelCoordsFilterFirst(ipc, labels_, vs, ignore) ==
    ShiftToOrigin(BoolIndex(RoundedCoords(ipc, vs), LabelMask(labels_, ignore)))

\* pc_ as passed to sparse_quantize: rounded, shifted, then filtered.
VoxelCoords(ipc, labels_, vs, ignore) ==
    BoolIndex(ShiftToOrigin(RoundedCoords(ipc, vs)), LabelMask(labels_, ignore))

\* feat_ = feat_[labels_ != ignore_label]
FilteredFeats(ipc, labels_, ignore) == BoolIndex(ipc, LabelMask(labels_, ignore))

\* labels_ = labels_[labels_ != ignore_label]
FilteredLabels(labels_, ignore) == BoolIndex(labels_, LabelMask(labels_, ignore))

\* Mutant: the coordinates indexed by the inverse map instead of inds.
QuantizedCoordsInvs(pc_, q) == TakeIndex(pc_, q.invs)

\* pc = pc_[inds]
QuantizedCoords(pc_, q) == TakeIndex(pc_, q.inds)

\* lidar = SparseTensor(feat_[inds], pc)
LidarField(feat_, pc_, q) ==
    SparseTensor(TakeIndex(feat_, q.inds), QuantizedCoords(pc_, q))

\* Mutant: the first len(inds) labels instead of the labels at inds.
TargetsFieldHead(labels_, pc_, q) ==
    SparseTensor(SubSeq(labels_, 1, Len(q.inds)), QuantizedCoords(pc_, q))

\* labels = SparseTensor(labels_[inds], pc)
TargetsField(labels_, pc_, q) ==
    SparseTensor(TakeIndex(labels_, q.inds), QuantizedCoords(pc_, q))

\* Mutant: inds stored in place of the inverse map.
InverseMapFieldInds(q, out_pc) == SparseTensor(q.inds, out_pc)

\* inverse_map = SparseTensor(inverse_map, out_pc)
InverseMapField(q, out_pc) == SparseTensor(q.invs, out_pc)

\* The call process_point_cloud(ipc, labels, vs, ignore) on a cloud of at
\* least one point, np.unique listing the keys in the order srt: the two
\* argument arrays as the call leaves them, and the feed_dict returned.
process_point_cloud(ipc, labels, vs, ignore, srt) ==
    LET ipc1 == AssignIntensity(ipc)
        pc_ == VoxelCoords(ipc1, labels, vs, ignore)
        feat_ == FilteredFeats(ipc1, labels, ignore)
        labels_ == FilteredLabels(labels, ignore)
        out_pc == OutPc(ipc1, labels, ignore)
        q == sparse_quantize(pc_, srt)
    IN  [input_point_cloud |-> ipc1,
         input_labels |-> labels,
         feed_dict |->
            [pc |-> SparseTensor(out_pc, out_pc),
             lidar |-> LidarField(feat_, pc_, q),
             targets |-> TargetsField(labels_, pc_, q),
             targets_mapped |-> SparseTensor(labels_, out_pc),
             inverse_map |-> InverseMapField(q, out_pc)]]

\* ------------------------------------------------------------ the notebook
\* Mutant: the list collated in reverse order.
CollateBatchReversed(l) == sparse_collate_fn([s \in 1..Len(l) |-> l[Len(l) + 1 - s]])

\* generate_random_batch returns sparse_collate_fn(lis).
CollateBatchOf(l) == sparse_collate_fn(l)

\* sparse_collate_fn([process_point_cloud(point_cloud, label)])
CollateSampleOf(fd) == sparse_collate_fn(<<fd>>)

\* Mutant: the per-voxel predictions used without the scatter.
ScatterNone(preds, inverse_map) == preds

\* predictions[feed_dict['inverse_map'].F]
Scatter(preds, inverse_map) == TakeIndex(preds, inverse_map)

Clouds(points, n) == [1..n -> points]

NoDict == [key \in Fields |-> SparseTensor(<<>>, <<>>)]

Init ==
    /\ cell = "start"
    /\ point_cloud = <<>>
    /\ label = <<>>
    /\ voxel_size = 1
    /\ lis = <<>>
    /\ feed_dict = NoDict
    /\ outputs = <<>>
    /\ predictions = <<>>

\* dummy_train calls generate_random_batch: lis = []
StartBatch ==
    /\ cell \in {"start", "collated"}
    /\ cell' = "batching"
    /\ lis' = <<>>
    /\ feed_dict' = NoDict
    /\ UNCHANGED <<point_cloud, label, voxel_size, outputs, predictions>>

\* One iteration of the loop of generate_random_batch: a random cloud of
\* pc_size points with labels below num_classes, processed and appended.
GenerateSample ==
    /\ cell = "batching"
    /\ Len(lis) < BatchSize
    /\ \E dummy_pc \in Clouds(DummyPoints, MaxPoints),
          dummy_label \in [1..MaxPoints -> Classes],
          vs \in VoxelSizes :
          \E srt \in UniqueOrders(VoxelCoords(dummy_pc, dummy_label, vs, IgnoreLabel)) :
             lis' = Append(lis,
                        process_point_cloud(dummy_pc, dummy_label, vs,
                                            IgnoreLabel, srt).feed_dict)
    /\ UNCHANGED <<cell, point_cloud, label, voxel_size, feed_dict, outputs, predictions>>

\* return sparse_collate_fn(lis)
CollateBatch ==
    /\ cell = "batching"
    /\ Len(lis) = BatchSize
    /\ feed_dict' = CollateBatchOf(lis)
    /\ cell' = "collated"
    /\ UNCHANGED <<point_cloud, label, voxel_size, lis, outputs, predictions>>

\* dummy_train returns: its local feed_dict is dropped.
FinishTraining ==
    /\ cell = "collated"
    /\ cell' = "trained"
    /\ lis' = <<>>
    /\ feed_dict' = NoDict
    /\ UNCHANGED <<point_cloud, label, voxel_size, outputs, predictions>>

\* point_cloud = np.fromfile(...).reshape(-1, 4); label = label_map[...]
LoadData ==
    /\ cell = "trained"
    /\ \E n \in 0..MaxPoints :
          /\ point_cloud' \in Clouds(RealPoints, n)
          /\ label' \in [1..n -> RealLabels]
    /\ voxel_size' \in VoxelSizes
    /\ cell' = "loaded"
    /\ UNCHANGED <<lis, feed_dict, outputs, predictions>>

\* feed_dict = sparse_collate_fn([process_point_cloud(point_cloud, label)])
CollateSample ==
    /\ cell = "loaded"
    /\ Len(point_cloud) > 0
    /\ \E srt \in UniqueOrders(VoxelCoords(point_cloud, label, voxel_size, IgnoreLabel)) :
          LET r == process_point_cloud(point_cloud, label, voxel_size, IgnoreLabel, srt)
          IN  /\ point_cloud' = r.input_point_cloud
              /\ label' = r.input_labels
              /\ lis' = <<r.feed_dict>>
              /\ feed_dict' = CollateSampleOf(r.feed_dict)
    /\ cell' = "processed"
    /\ UNCHANGED <<voxel_size, outputs, predictions>>

\* pc_.min(0, keepdims=1) of an empty array raises ValueError.
ProcessFails ==
    /\ cell = "loaded"
    /\ Len(point_cloud) = 0
    /\ cell' = "error"
    /\ UNCHANGED <<point_cloud, label, voxel_size, lis, feed_dict, outputs, predictions>>

\* outputs = model(inputs); predictions = outputs.argmax(1);
\* predictions = predictions[feed_dict['inverse_map'].F]
RunInference ==
    /\ cell = "processed"
    /\ \E out \in [1..Len(feed_dict.lidar.F) -> Classes] :
          /\ outputs' = out
          /\ predictions' = Scatter(out, feed_dict.inverse_map.F)
    /\ cell' = "inferred"
    /\ UNCHANGED <<point_cloud, label, voxel_size, lis, feed_dict>>

Next ==
    \/ StartBatch
    \/ GenerateSample
    \/ CollateBatch
    \/ FinishTraining
    \/ LoadData
    \/ CollateSample
    \/ ProcessFails
    \/ RunInference

Spec == Init /\ [][Next]_vars

\* ------------------------------------------------- vocabulary of the claims
\* process_point_cloud has just returned on the loaded cloud: lis[1] is what
\* it returned and feed_dict the collated batch of that one sample.  (The
\* inference cell changes none of them.)
Called == cell = "processed"

\* sparse_collate_fn has just returned feed_dict for the samples of lis.
Collated == cell \in {"collated", "processed"}

\* The input points whose label is not the ignore label.
Kept == {i \in 1..Len(label) : label[i] # IgnoreLabel}

RECURSIVE KeptBelow(_)
KeptBelow(n) ==
    IF n = 0 THEN <<>>
    ELSE IF label[n] # IgnoreLabel THEN Append(KeptBelow(n - 1), n)
    ELSE KeptBelow(n - 1)

\* The same points, in input order.
KeptSeq == KeptBelow(Len(label))

\* Rounded coordinate / voxel_size of input point i.
Rnd(i) == [k \in Axes |-> RoundHalfEven(point_cloud[i][k], voxel_size)]

\* The least rounded coordinate on axis k over the whole cloud, ignored
\* points included.
CloudMin(k) ==
    CHOOSE m \in {Rnd(i)[k] : i \in 1..Len(point_cloud)} :
        \A i \in 1..Len(point_cloud) : m <= Rnd(i)[k]

\* The shifted, rounded voxel coordinate of every input point.
Voxels ==
    LET rnd == [i \in 1..Len(point_cloud) |-> Rnd(i)]
        lo == [k \in Axes |-> CloudMin(k)]
    IN  [i \in 1..Len(point_cloud) |-> [k \in Axes |-> rnd[i][k] - lo[k]]]

Rows(t) == 1..Len(t.F)

RECURSIVE Offset(_, _)
\* The number of rows of field key in the samples before sample s.
Offset(key, s) ==
    IF s = 1 THEN 0 ELSE Offset(key, s - 1) + Len(lis[s - 1][key].F)

\* The values of the batch-index column of a collated field.
BatchIndices(t) == {t.C[r][Len(t.C[r])] : r \in 1..Len(t.C)}

\* ------------------------------------------------------------------ claims

\* C1: no ignored point reaches the quantized output: every row of 'lidar'
\* and of 'targets' is the row of an input point whose label is not
\* ignore_label, and no value of 'targets' or 'targets_mapped' is ignore_label.
C1_IgnoredAbsent ==
    LET vx == Voxels IN
        Called =>
            LET s == lis[1]
            IN  /\ \A v \in Rows(s.lidar) :
                     \E i \in Kept : s.lidar.F[v] = point_cloud[i] /\ s.lidar.C[v] = vx[i]
                /\ \A v \in Rows(s.targets) :
                     \E i \in Kept : s.targets.F[v] = label[i] /\ s.targets.C[v] = vx[i]
                /\ \A v \in Rows(s.targets) : s.targets.F[v] # IgnoreLabel
                /\ \A j \in Rows(s.targets_mapped) : s.targets_mapped.F[j] # IgnoreLabel

\* An ignored point in a voxel of its own, next to a retained point.
C1_Witness ==
    LET vx == Voxels IN
        /\ Called
        /\ Len(lis[1].lidar.F) > 0
        /\ \E i \in 1..Len(label) :
              /\ label[i] = IgnoreLabel
              /\ \A j \in Kept : vx[j] # vx[i]

\* C2: the inverse map has one entry per non-ignored input point, and every
\* entry is an index i with 0 <= i < number of rows of 'lidar'.
C2_InverseMapValid ==
    Called =>
        LET s == lis[1]
        IN  /\ Len(s.inverse_map.F) = Cardinality(Kept)
            /\ \A j \in Rows(s.inverse_map) :
                 0 <= s.inverse_map.F[j] /\ s.inverse_map.F[j] < Len(s.lidar.F)

\* Two retained points share a voxel: more entries than rows.
C2_Witness ==
    /\ Called
    /\ Cardinality(Kept) >= 2
    /\ Len(lis[1].lidar.F) < Cardinality(Kept)

\* C3 as claimed: the shift is computed over the label-filtered set, so among
\* the retained points the minimum voxel coordinate on each axis is zero.
C3_MinOfRetainedIsZero ==
    (Called /\ Kept # {}) =>
        \A k \in Axes :
            /\ \A v \in Rows(lis[1].lidar) : lis[1].lidar.C[v][k] >= 0
            /\ \E v \in Rows(lis[1].lidar) : lis[1].lidar.C[v][k] = 0

\* C3 as amended: the shift is computed over the whole cloud, before the
\* filter: every retained point's voxel coordinate is its rounded coordinate
\* minus the per-axis minimum over all input points, ignored ones included,
\* and the retained minimum on an axis is zero exactly when a retained point
\* attains the whole cloud's minimum there.
C3_ShiftOverWholeCloud ==
    Called =>
        LET s == lis[1]
        IN  /\ \A j \in 1..Len(KeptSeq) :
                 s.lidar.C[s.inverse_map.F[j] + 1] =
                     [k \in Axes |-> Rnd(KeptSeq[j])[k] - CloudMin(k)]
            /\ \A k \in Axes :
                 (\E v \in Rows(s.lidar) : s.lidar.C[v][k] = 0)
                     <=> (\E i \in Kept : Rnd(i)[k] = CloudMin(k))

\* An ignored point alone holds the minimum of an axis.
C3_Witness ==
    /\ Called
    /\ Kept # {}
    /\ \E k \in Axes : \A v \in Rows(lis[1].lidar) : lis[1].lidar.C[v][k] > 0

\* C4: predictions[inverse_map] has one prediction per non-ignored point, and
\* point i gets the prediction of the voxel it falls in: the quantized
\* coordinate at index inverse_map[i] is the shifted, rounded voxel
\* coordinate of point i.
C4_ScatterRestoresPoints ==
    LET vx == Voxels IN
        cell = "inferred" =>
            /\ Len(predictions) = Cardinality(Kept)
            /\ \A j \in 1..Len(KeptSeq) :
                  LET v == feed_dict.inverse_map.F[j] + 1
                  IN  /\ predictions[j] = outputs[v]
                      /\ Xyz(feed_dict.lidar.C[v]) = vx[KeptSeq[j]]

\* Two voxels with different predictions, listed in the reverse of the
\* input order.
C4_Witness ==
    /\ cell = "inferred"
    /\ Len(outputs) = 2
    /\ outputs[1] # outputs[2]
    /\ feed_dict.inverse_map.F = <<1, 0>>

\* C5: one representative per occupied voxel: no two rows of the 'lidar'
\* coordinates are equal, and their set is the set of voxel coordinates of
\* the non-ignored input points.
C5_OnePerVoxel ==
    LET vx == Voxels IN
        Called =>
            LET c == lis[1].lidar.C
            IN  /\ \A u, v \in 1..Len(c) : u # v => c[u] # c[v]
                /\ {c[v] : v \in 1..Len(c)} = {vx[i] : i \in Kept}

\* Two retained points in one voxel, deduplicated to one row.
C5_Witness ==
    LET vx == Voxels IN
        /\ Called
        /\ Len(lis[1].lidar.C) >= 1
        /\ \E i, j \in Kept : i # j /\ vx[i] = vx[j]

\* C6: every voxel coordinate returned in 'lidar' and 'targets' is
\* non-negative on all three axes.
C6_NonNegative ==
    Called =>
        /\ \A v \in Rows(lis[1].lidar) : \A k \in Axes : lis[1].lidar.C[v][k] >= 0
        /\ \A v \in Rows(lis[1].targets) : \A k \in Axes : lis[1].targets.C[v][k] >= 0

\* A retained point with a negative spatial coordinate.
C6_Witness ==
    /\ Called
    /\ \E i \in Kept : \E k \in Axes : Rnd(i)[k] < 0

\* C7 as claimed: the batch-index column of every collated field takes
\* exactly N distinct values, N the number of samples collated.
C7_BatchIndexHasNValues ==
    Collated =>
        \A key \in Fields : Cardinality(BatchIndices(feed_dict[key])) = Len(lis)

\* C7 as amended: every field is the concatenation of the samples' fields in
\* order, row r carrying the index of the sample it came from, so the
\* batch-index column takes one value per sample that has at least one row.
C7_CollateConcatenates ==
    Collated =>
        \A key \in Fields :
            LET t == feed_dict[key]
            IN  /\ Len(t.F) = Offset(key, Len(lis) + 1)
                /\ Len(t.C) = Len(t.F)
                /\ \A s \in 1..Len(lis) : \A j \in Rows(lis[s][key]) :
                      /\ t.F[Offset(key, s) + j] = lis[s][key].F[j]
                      /\ t.C[Offset(key, s) + j] = Append(lis[s][key].C[j], s - 1)
                /\ BatchIndices(t) =
                      {s - 1 : s \in {u \in 1..Len(lis) : Len(lis[u][key].F) > 0}}

\* A batch of two samples with different numbers of voxels.
C7_Witness ==
    /\ cell = "collated"
    /\ Len(lis) = BatchSize
    /\ Len(lis[1].lidar.F) # Len(lis[2].lidar.F)
    /\ BatchIndices(feed_dict.lidar) = {0, 1}

\* A cloud with no ignored label, voxel-aligned coordinates and pairwise
\* distinct voxel coordinates has been processed.
AlreadyQuantized ==
    /\ Called
    /\ Kept = 1..Len(label)
    /\ \A i \in 1..Len(point_cloud) : \A k \in Axes : point_cloud[i][k] % voxel_size = 0
    /\ \A i, j \in 1..Len(point_cloud) : i # j => Rnd(i) # Rnd(j)

C9_FieldsAligned ==
    LET vx == Voxels IN
        Called =>
            LET s == lis[1]
            IN  /\ s.pc.F = [j \in 1..Len(KeptSeq) |-> Xyz(point_cloud[KeptSeq[j]])]
                /\ s.targets_mapped.F = [j \in 1..Len(KeptSeq) |-> label[KeptSeq[j]]]
                /\ Len(s.inverse_map.F) = Len(KeptSeq)
                /\ Len(s.lidar.F) = Cardinality({vx[i] : i \in Kept})
                /\ Len(s.targets.F) = Len(s.lidar.F)
                /\ \A v \in Rows(s.lidar) :
                      \E i \in Kept :
                          /\ s.lidar.F[v] = point_cloud[i]
                          /\ s.targets.F[v] = label[i]
                          /\ s.lidar.C[v] = vx[i]
                          /\ s.targets.C[v] = vx[i]

\* Two voxels whose points differ in label and in features.
C9_Witness ==
    /\ Called
    /\ Len(lis[1].lidar.F) = 2
    /\ lis[1].lidar.F[1] # lis[1].lidar.F[2]
    /\ lis[1].targets.F[1] # lis[1].targets.F[2]

\* C10: process_point_cloud leaves input_point_cloud and input_labels as
\* they were before the call.
C10_ArgumentsUnchanged ==
    [][cell = "loaded" => (point_cloud' = point_cloud /\ label' = label)]_vars

\* The call rounded, shifted and filtered: a retained point whose voxel
\* coordinate differs from its spatial coordinate, and an ignored point.
C10_Witness ==
    LET vx == Voxels IN
        /\ Called
        /\ \E i \in Kept : vx[i] # Xyz(point_cloud[i])
        /\ Kept # 1..Len(label)

====
